---- MODULE Spec2Model ----
(***************************************************************************)
(* EWSDelegationManager (email_summarizer/app/utils/ews_delegation.py):    *)
(* the transport wrapper _post_ews, the delegate listing get_inbox_level,  *)
(* the two writes add_delegate_inbox_reviewer / update_delegate_inbox and  *)
(* the reconciliation ensure_inbox_reviewer, run against a mailbox server  *)
(* that holds the owner's delegate list.                                   *)
(*                                                                         *)
(* Strings that the code transforms (addresses) are sequences of one-      *)
(* character strings, so that lower() and strip() are computed.  Python's  *)
(* None is the string PyNone.                                              *)
(***************************************************************************)
EXTENDS Integers, Sequences, FiniteSets, TLC

VARIABLES
    server,       \* the owner's delegates on the mailbox server, in document order
    server0,      \* the server's delegates when the run started (history)
    faulty,       \* whether any request of the run was answered other than 200 with
                  \* the server's reply to an accepted or duplicate-rejected request
    query,        \* query[c]: the delegate_upn argument of caller c
    pc,           \* pc[c]: where caller c stands in ensure_inbox_reviewer
    start,        \* start[c]: the server's delegates when c's current call began (history)
    seen,         \* seen[c]: what get_inbox_level yielded to c's current call
    found_level,  \* found_level[c]: the local variable of ensure_inbox_reviewer
    rresp,        \* rresp[c]: the HTTP response to c's GetDelegate request (history)
    wresp,        \* wresp[c]: the HTTP response to c's write request (history)
    ret,          \* ret[c]: how c's current call ended (returned tuple or raised error)
    adds,         \* adds[c]: AddDelegate requests sent by c's current call
    updates,      \* updates[c]: UpdateDelegate requests sent by c's current call
    posts,        \* posts[c]: requests.post calls made by c's current call
    calls,        \* calls[c]: calls of ensure_inbox_reviewer c has begun
    oks,          \* oks[c]: calls of c that returned (True, ...)
    mutations,    \* AddDelegate and UpdateDelegate requests sent since the run started
    http,         \* standalone get_inbox_level: the HTTP response the transport gives
    xml,          \* standalone get_inbox_level: what _post_ews returned or raised
    pairs         \* standalone get_inbox_level: the pairs the generator yielded

vars == <<server, server0, faulty, query, pc, start, seen, found_level, rresp, wresp,
          ret, adds, updates, posts, calls, oks, mutations, http, xml, pairs>>

ensureVars == <<server, server0, faulty, query, pc, start, seen, found_level, rresp,
                wresp, ret, adds, updates, calls, oks, mutations>>

listVars == <<http, xml, pairs>>

-----------------------------------------------------------------------------
(* Bounds of the model.                                                    *)

MaxTextLen == 1

MaxEntries == 2

MaxCalls == 2

-----------------------------------------------------------------------------
(* Strings.                                                                *)

Chars == {"J", "j", " "}

PyNone == "<None>"

\* str.lower() on one character.
LowerChar(ch) == IF ch = "J" THEN "j" ELSE IF ch = "K" THEN "k" ELSE ch

\* str.lower(): character by character.
Lower(s) == [i \in 1..Len(s) |-> LowerChar(s[i])]

IsSpace(ch) == ch = " "

RECURSIVE LStrip(_)
LStrip(s) == IF s # <<>> /\ IsSpace(Head(s)) THEN LStrip(Tail(s)) ELSE s

RECURSIVE RStrip(_)
RStrip(s) ==
    IF s # <<>> /\ IsSpace(s[Len(s)]) THEN RStrip(SubSeq(s, 1, Len(s) - 1)) ELSE s

\* str.strip(): leading and trailing whitespace removed.
Strip(s) == RStrip(LStrip(s))

StringsUpTo(alphabet, n) == UNION {[1..k -> alphabet] : k \in 0..n}

-----------------------------------------------------------------------------
(* HTTP responses and _post_ews.                                           *)

\* A parsed XML document, as far as the code looks into it: whether the text is
\* well-formed XML at all, its t:DelegateUser elements in document order, the
\* m:*Response element it holds ("" for none) with its ResponseClass, and its
\* first m:ResponseCode element (present?, text).
Doc(wellFormed, users, respElem, respClass, hasCode, code) ==
    [wellFormed |-> wellFormed, users |-> users, respElem |-> respElem,
     respClass |-> respClass, hasCode |-> hasCode, code |-> code]

EmptyDoc == Doc(TRUE, <<>>, "", "", FALSE, "")

Malformed == Doc(FALSE, <<>>, "", "", FALSE, "")

\* A response body is its leading whitespace (lead), the text it starts with
\* after that (head) and the document that follows (doc).
Heads == {"<!DOCTYPE HTML", "<html", "<?xml", "<s:Envelope"}

Response(status, wwwAuth, lead, head, doc) ==
    [status |-> status, wwwAuth |-> wwwAuth, lead |-> lead, head |-> head, doc |-> doc]

\* What requests.post gives is a response, or a raised network error / timeout.
NoResponse == Response(0, PyNone, FALSE, "", EmptyDoc)

\* requests.Response.raise_for_status: HTTPError for 4xx and 5xx, nothing else.
RaisesForStatus(status) == status >= 400 /\ status < 600

Raised(err, detail) == [kind |-> "raise", err |-> err, detail |-> detail, body |-> NoResponse]

Returned(body) == [kind |-> "text", err |-> "", detail |-> "", body |-> body]

\* _post_ews after requests.post: the response text, or the error raised.
PostEws(resp) ==
    IF resp = NoResponse THEN Raised("RequestException", "")
    ELSE IF resp.status = 401 THEN Raised("ValueError:401", resp.wwwAuth)
    ELSE IF RaisesForStatus(resp.status) THEN Raised("HTTPError", "")
    ELSE IF resp.head \in {"<!DOCTYPE HTML", "<html"} THEN Raised("ValueError:HTML", resp.head)
    ELSE Returned(resp)

\* ET.fromstring: ParseError for a malformed document, and for an XML
\* declaration that is not at the very start of the text.
ParseFails(body) == ~body.doc.wellFormed \/ (body.lead /\ body.head = "<?xml")

-----------------------------------------------------------------------------
(* GetDelegate documents and get_inbox_level.                              *)

\* One t:DelegateUser element: its UserId/PrimarySmtpAddress (element present?,
\* text) and its DelegatePermissions/InboxFolderPermissionLevel (element
\* present?, text; an empty element has text None).
DelegateUser(hasAddr, addr, hasLevel, level) ==
    [hasAddr |-> hasAddr, addr |-> addr, hasLevel |-> hasLevel, level |-> level]

\* The test of line 120: the entry is skipped.
Skipped(du) == ~du.hasAddr \/ Strip(du.addr) = <<>>

\* Yielded with the address emitted as stored (lower() forgotten).
Yielded_AsStored(du) == <<du.addr, IF du.hasLevel THEN du.level ELSE PyNone>>

\* The pair of line 123.
Yielded(du) == <<Lower(du.addr), IF du.hasLevel THEN du.level ELSE PyNone>>

\* The generator's output over the DelegateUser elements in document order.
RECURSIVE YieldAll(_)
YieldAll(dus) ==
    IF dus = <<>> THEN <<>>
    ELSE IF Skipped(Head(dus)) THEN YieldAll(Tail(dus))
    ELSE <<Yielded(Head(dus))>> \o YieldAll(Tail(dus))

\* GetInboxLevel with every error of the read swallowed into an empty listing.
GetInboxLevel_Swallowing(posted) ==
    IF posted.kind = "raise" \/ ParseFails(posted.body)
    THEN [kind |-> "list", err |-> "", items |-> <<>>]
    ELSE [kind |-> "list", err |-> "", items |-> YieldAll(posted.body.doc.users)]

\* get_inbox_level after the POST: the pairs yielded, or the error raised.
GetInboxLevel(posted) ==
    IF posted.kind = "raise" THEN [kind |-> "raise", err |-> posted.err, items |-> <<>>]
    ELSE IF ParseFails(posted.body) THEN [kind |-> "raise", err |-> "ParseError", items |-> <<>>]
    ELSE [kind |-> "list", err |-> "", items |-> YieldAll(posted.body.doc.users)]

-----------------------------------------------------------------------------
(* The mailbox server: the owner's delegate list and the three operations. *)

Mailboxes == {<<"J", "k">>, <<"j", "k">>, <<"k", "j">>}

Levels == {"Reviewer", "Author"}

\* A delegate as the server holds it: an address, and an inbox level or none.
Delegates ==
    {DelegateUser(TRUE, a, TRUE, l) : a \in Mailboxes, l \in Levels}
        \cup {DelegateUser(TRUE, a, FALSE, "") : a \in Mailboxes}

\* The server identifies a mailbox whatever the case of its address.
SameMailbox(a, b) == Lower(a) = Lower(b)

Holds(srv, a) == \E i \in 1..Len(srv) : SameMailbox(srv[i].addr, a)

ServerStates ==
    {srv \in UNION {[1..n -> Delegates] : n \in 0..Cardinality({Lower(a) : a \in Mailboxes})} :
        \A i, j \in 1..Len(srv) : i # j => ~SameMailbox(srv[i].addr, srv[j].addr)}

GetDelegateRequest == [op |-> "GetDelegate", delegate |-> <<>>, level |-> ""]

\* The body of lines 140-159: the delegate as given, inbox level Reviewer.
AddDelegateRequest(delegate_upn) ==
    [op |-> "AddDelegate", delegate |-> delegate_upn, level |-> "Reviewer"]

\* The body of lines 179-196.
UpdateDelegateRequest(delegate_upn, level) ==
    [op |-> "UpdateDelegate", delegate |-> delegate_upn, level |-> level]

ResponseElement(op) == 
    IF op = "GetDelegate" THEN "GetDelegateResponse"
    ELSE IF op = "AddDelegate" THEN "AddDelegateResponse"
    ELSE "UpdateDelegateResponse"

SuccessDoc(op, users) == Doc(TRUE, users, ResponseElement(op), "Success", TRUE, "NoError")

ErrorDoc(op, code) == Doc(TRUE, <<>>, ResponseElement(op), "Error", TRUE, code)

\* The server's handling of a request: its delegates afterwards and its reply.
\* An accepted write is applied; AddDelegate for a delegate that exists and
\* UpdateDelegate for one that does not are rejected.
ServerHandle(srv, req) ==
    IF req.op = "GetDelegate" THEN [srv |-> srv, doc |-> SuccessDoc(req.op, srv)]
    ELSE IF req.op = "AddDelegate" THEN
        IF Holds(srv, req.delegate)
        THEN [srv |-> srv, doc |-> ErrorDoc(req.op, "ErrorDelegateAlreadyExists")]
        ELSE [srv |-> Append(srv, DelegateUser(TRUE, req.delegate, TRUE, req.level)),
              doc |-> SuccessDoc(req.op, <<>>)]
    ELSE
        IF Holds(srv, req.delegate)
        THEN [srv |-> [i \in 1..Len(srv) |->
                          IF SameMailbox(srv[i].addr, req.delegate)
                          THEN DelegateUser(TRUE, srv[i].addr, TRUE, req.level)
                          ELSE srv[i]],
              doc |-> SuccessDoc(req.op, <<>>)]
        ELSE [srv |-> srv, doc |-> ErrorDoc(req.op, "ErrorDelegateNoUser")]

\* How a request can be answered.  "ok": 200 with the server's reply.
Modes ==
    {"ok", "redirect", "unauthorized", "servererror", "htmlpage", "garbled",
     "timeout", "denied", "nocode"}

\* The modes in which the server has handled the request.
Handled(mode) == mode \in {"ok", "redirect"}

\* The modes in which the server may or may not have handled the request.
Uncertain(mode) == mode \in {"servererror", "garbled", "timeout"}

\* What requests.post gives for a request in a mode; doc is the server's reply.
Reply(mode, op, doc) ==
    CASE mode = "ok" -> Response(200, PyNone, FALSE, "<?xml", doc)
      [] mode = "redirect" -> Response(302, PyNone, FALSE, "<?xml", doc)
      [] mode = "unauthorized" -> Response(401, "NTLM", FALSE, "", EmptyDoc)
      [] mode = "servererror" -> Response(500, PyNone, FALSE, "<s:Envelope", EmptyDoc)
      [] mode = "htmlpage" -> Response(200, PyNone, TRUE, "<html", Malformed)
      [] mode = "garbled" -> Response(200, PyNone, FALSE, "<s:Envelope", Malformed)
      [] mode = "timeout" -> NoResponse
      [] mode = "denied" -> Response(200, PyNone, FALSE, "<?xml", ErrorDoc(op, "ErrorAccessDenied"))
      [] mode = "nocode" -> Response(200, PyNone, FALSE, "<?xml", EmptyDoc)

-----------------------------------------------------------------------------
(* The writes and ensure_inbox_reviewer.                                   *)

Ret(kind, ok, msg) == [kind |-> kind, ok |-> ok, msg |-> msg]

NoRet == Ret("none", FALSE, "")

\* Lines 160-166 and 197-203: the tuple returned, or the error raised, for the
\* HTTP response to an AddDelegate / UpdateDelegate request.
WriteResult(resp, elem, successMsg) ==
    LET posted == PostEws(resp) IN
    IF posted.kind = "raise" THEN Ret("raise", FALSE, posted.err)
    ELSE IF ParseFails(posted.body) THEN Ret("raise", FALSE, "ParseError")
    ELSE IF posted.body.doc.respElem = elem /\ posted.body.doc.respClass = "Success"
         THEN Ret("return", TRUE, successMsg)
    ELSE Ret("return", FALSE,
             IF posted.body.doc.hasCode THEN posted.body.doc.code ELSE "UnknownError")

add_delegate_inbox_reviewer(resp) ==
    WriteResult(resp, "AddDelegateResponse", "AddDelegate Success")

update_delegate_inbox(resp) ==
    WriteResult(resp, "UpdateDelegateResponse", "UpdateDelegate Success")

\* Lines 217-221: the level of the first yielded pair whose address is the
\* lower-cased delegate_upn; None when there is none.
RECURSIVE FindLevel(_, _)
FindLevel(items, delegate_upn) ==
    IF items = <<>> THEN PyNone
    ELSE IF Head(items)[1] = Lower(delegate_upn) THEN Head(items)[2]
    ELSE FindLevel(Tail(items), delegate_upn)

\* EnsureBranch with the test of line 224 inverted (== for !=).
EnsureBranch_Inverted(found) ==
    IF found = PyNone THEN "add"
    ELSE IF found = "Reviewer" THEN "update"
    ELSE "none"

\* EnsureBranch with the two writes swapped.
EnsureBranch_Swapped(found) ==
    IF found = PyNone THEN "update"
    ELSE IF found # "Reviewer" THEN "add"
    ELSE "none"

\* EnsureBranch without the add of lines 222-223.
EnsureBranch_NoAdd(found) ==
    IF found = PyNone THEN "none"
    ELSE IF found # "Reviewer" THEN "update"
    ELSE "none"

\* Lines 222-226: what ensure_inbox_reviewer does with found_level.
EnsureBranch(found) ==
    IF found = PyNone THEN "add"
    ELSE IF found # "Reviewer" THEN "update"
    ELSE "none"

Callers == {1, 2}

\* Lines 217-221 and 226: caller c's call sends GetDelegate (answered in one of
\* `modes`), scans what get_inbox_level yields, and either raises the read's
\* error, returns (True, "Already Reviewer"), or goes on to its write.  n, m and
\* k are the counts of calls, of writes and of successes the call starts from.
ReadStep(c, modes, n, m, k) ==
    \E mode \in modes :
        LET resp == Reply(mode, "GetDelegate", ServerHandle(server, GetDelegateRequest).doc)
            listed == GetInboxLevel(PostEws(resp))
            found == FindLevel(listed.items, query[c])
            ended == listed.kind = "raise" \/ EnsureBranch(found) = "none"
        IN  /\ start' = [start EXCEPT ![c] = server]
            /\ seen' = [seen EXCEPT ![c] = listed]
            /\ found_level' = [found_level EXCEPT ![c] = found]
            /\ rresp' = [rresp EXCEPT ![c] = resp]
            /\ wresp' = [wresp EXCEPT ![c] = NoResponse]
            /\ posts' = [posts EXCEPT ![c] = 1]
            /\ adds' = [adds EXCEPT ![c] = 0]
            /\ updates' = [updates EXCEPT ![c] = 0]
            /\ calls' = [calls EXCEPT ![c] = n + 1]
            /\ mutations' = m
            /\ faulty' = (faulty \/ mode # "ok")
            /\ ret' = [ret EXCEPT ![c] =
                         IF listed.kind = "raise" THEN Ret("raise", FALSE, listed.err)
                         ELSE IF ended THEN Ret("return", TRUE, "Already Reviewer")
                         ELSE NoRet]
            /\ pc' = [pc EXCEPT ![c] =
                         IF listed.kind = "raise" THEN "raised"
                         ELSE IF ended THEN "returned"
                         ELSE "writing"]
            /\ oks' = [oks EXCEPT ![c] =
                         IF listed.kind # "raise" /\ ended THEN k + 1 ELSE k]
            /\ UNCHANGED <<server, server0, query, listVars>>

\* Lines 223 and 225: caller c's call sends its AddDelegate or UpdateDelegate
\* request and returns what the write returns (or raises what it raises).
WriteStep(c, modes) ==
    \E mode \in modes :
        \E handled \in IF Handled(mode) THEN {TRUE}
                       ELSE IF Uncertain(mode) THEN BOOLEAN ELSE {FALSE} :
            LET branch == EnsureBranch(found_level[c])
                req == IF branch = "add" THEN AddDelegateRequest(query[c])
                       ELSE UpdateDelegateRequest(query[c], "Reviewer")
                res == ServerHandle(server, req)
                resp == Reply(mode, req.op, res.doc)
                out == IF branch = "add" THEN add_delegate_inbox_reviewer(resp)
                       ELSE update_delegate_inbox(resp)
            IN  /\ server' = IF handled THEN res.srv ELSE server
                /\ wresp' = [wresp EXCEPT ![c] = resp]
                /\ posts' = [posts EXCEPT ![c] = @ + 1]
                /\ adds' = [adds EXCEPT ![c] = IF branch = "add" THEN @ + 1 ELSE @]
                /\ updates' = [updates EXCEPT ![c] = IF branch = "update" THEN @ + 1 ELSE @]
                /\ mutations' = mutations + 1
                /\ faulty' = (faulty \/ mode # "ok")
                /\ ret' = [ret EXCEPT ![c] = out]
                /\ pc' = [pc EXCEPT ![c] = IF out.kind = "raise" THEN "raised" ELSE "returned"]
                /\ oks' = [oks EXCEPT ![c] = IF out.kind = "return" /\ out.ok THEN @ + 1 ELSE @]
                /\ UNCHANGED <<server0, query, start, seen, found_level, rresp, calls, listVars>>

-----------------------------------------------------------------------------
(* Sequential use: one caller, one delegate, MaxCalls calls in a row.      *)

NotPosted == [kind |-> "none", err |-> "", detail |-> "", body |-> NoResponse]

NotListed == [kind |-> "none", err |-> "", items |-> <<>>]

\* Before any call: the mailbox holds any delegate list, nothing has been sent.
Idle ==
    /\ server0 = server
    /\ faulty = FALSE
    /\ pc = [c \in Callers |-> "idle"]
    /\ start = [c \in Callers |-> server]
    /\ seen = [c \in Callers |-> NotListed]
    /\ found_level = [c \in Callers |-> PyNone]
    /\ rresp = [c \in Callers |-> NoResponse]
    /\ wresp = [c \in Callers |-> NoResponse]
    /\ ret = [c \in Callers |-> NoRet]
    /\ adds = [c \in Callers |-> 0]
    /\ updates = [c \in Callers |-> 0]
    /\ posts = [c \in Callers |-> 0]
    /\ calls = [c \in Callers |-> 0]
    /\ oks = [c \in Callers |-> 0]
    /\ mutations = 0
    /\ xml = NotPosted
    /\ pairs = NotListed

Init ==
    /\ server \in ServerStates
    /\ Idle
    /\ http = NoResponse
    /\ \E d \in Mailboxes : query = [c \in Callers |-> d]

EnsureRead ==
    /\ pc[1] # "writing"
    /\ calls[1] < MaxCalls
    /\ ReadStep(1, Modes, calls[1], mutations, oks[1])

EnsureWrite ==
    /\ pc[1] = "writing"
    /\ WriteStep(1, Modes)

Next == EnsureRead \/ EnsureWrite

Spec == Init /\ [][Next]_vars

-----------------------------------------------------------------------------
(* Two uncoordinated callers, one call each, for the same mailbox; every   *)
(* request is answered 200 with the server's reply.                        *)

InitRace ==
    /\ server \in ServerStates
    /\ Idle
    /\ http = NoResponse
    /\ query \in {q \in [Callers -> Mailboxes] : SameMailbox(q[1], q[2])}

RaceRead(c) ==
    /\ pc[c] = "idle"
    /\ ReadStep(c, {"ok"}, 0, mutations, 0)

RaceWrite(c) ==
    /\ pc[c] = "writing"
    /\ WriteStep(c, {"ok"})

NextRace == \E c \in Callers : RaceRead(c) \/ RaceWrite(c)

SpecRace == InitRace /\ [][NextRace]_vars

-----------------------------------------------------------------------------
(* One caller that calls again for as long as the call returns a failure;  *)
(* every request is answered 200 with the server's reply.  The counts are  *)
(* those of the current attempt.  The caller is a loop that keeps running  *)
(* and every request returns (timeout=60), hence the weak fairness.        *)

RetryRead ==
    /\ pc[1] = "idle" \/ (pc[1] = "returned" /\ ~ret[1].ok)
    /\ ReadStep(1, {"ok"}, 0, 0, 0)

RetryWrite ==
    /\ pc[1] = "writing"
    /\ WriteStep(1, {"ok"})

NextRetry == RetryRead \/ RetryWrite

SpecRetry == Init /\ [][NextRetry]_vars /\ WF_vars(NextRetry)

-----------------------------------------------------------------------------
(* get_inbox_level called on its own, for any response of the transport.   *)

Statuses == {200, 204, 302, 401, 404, 500}

Texts == StringsUpTo(Chars, MaxTextLen)

\* The DelegateUser elements a response may hold: the address element missing,
\* empty, blank or filled; the level element missing, empty or filled.
Entries ==
    {DelegateUser(FALSE, <<>>, l[1], l[2]) :
        l \in {<<FALSE, "">>, <<TRUE, PyNone>>, <<TRUE, "Reviewer">>}}
    \cup {DelegateUser(TRUE, t, l[1], l[2]) :
            t \in Texts, l \in {<<FALSE, "">>, <<TRUE, PyNone>>, <<TRUE, "Reviewer">>}}

GetDelegateDocs ==
    {SuccessDoc("GetDelegate", us) : us \in UNION {[1..n -> Entries] : n \in 0..MaxEntries}}

SampleDoc ==
    SuccessDoc("GetDelegate", <<DelegateUser(TRUE, <<"J">>, TRUE, "Reviewer")>>)

ListResponses ==
    {NoResponse}
    \cup {Response(200, PyNone, FALSE, "<?xml", d) : d \in GetDelegateDocs}
    \cup {Response(st, h, lead, head, d) :
            st \in Statuses, h \in {PyNone, "NTLM"}, lead \in BOOLEAN, head \in Heads,
            d \in {Malformed, SampleDoc}}

InitList ==
    /\ server = <<>>
    /\ Idle
    /\ http \in ListResponses
    /\ query = [c \in Callers |-> <<"j", "k">>]

\* Lines 94-106: the request is sent and _post_ews returns or raises.
ListPost ==
    /\ xml.kind = "none"
    /\ xml' = PostEws(http)
    /\ posts' = [posts EXCEPT ![1] = @ + 1]
    /\ UNCHANGED <<ensureVars, http, pairs>>

\* Lines 111-123: the text is parsed and the generator runs to its end.
ListParse ==
    /\ xml.kind # "none"
    /\ pairs.kind = "none"
    /\ pairs' = GetInboxLevel(xml)
    /\ UNCHANGED <<ensureVars, posts, http, xml>>

NextList == ListPost \/ ListParse

SpecList == InitList /\ [][NextList]_vars

-----------------------------------------------------------------------------
(* Properties.                                                             *)

Done(c) == pc[c] \in {"returned", "raised"}

\* The read of c's current call gave a listing (it did not raise).
Listed(c) == pc[c] # "idle" /\ seen[c].kind = "list"

\* The listing holds an entry for c's delegate / one with the given level.
HasEntry(c) == \E i \in 1..Len(seen[c].items) : seen[c].items[i][1] = Lower(query[c])

Reported(c, level) ==
    \E i \in 1..Len(seen[c].items) : seen[c].items[i] = <<Lower(query[c]), level>>

HoldsReviewer(srv, a) ==
    \E i \in 1..Len(srv) :
        SameMailbox(srv[i].addr, a) /\ srv[i].hasLevel /\ srv[i].level = "Reviewer"

HoldsNoLevel(srv, a) ==
    \E i \in 1..Len(srv) : SameMailbox(srv[i].addr, a) /\ ~srv[i].hasLevel

\* C1: a call whose read reports the delegate with any level other than
\* "Reviewer" (a named level, or none at all) ends having sent exactly one
\* UpdateDelegate, no AddDelegate, and returns that update's outcome.
C1_UpdateUnlessReviewer ==
    \A c \in Callers :
        (Done(c) /\ Listed(c) /\ HasEntry(c) /\ ~Reported(c, "Reviewer"))
            => /\ updates[c] = 1
               /\ adds[c] = 0
               /\ ret[c] = update_delegate_inbox(wresp[c])

\* C2: a call whose read reports the delegate with level "Reviewer" sends no
\* AddDelegate and no UpdateDelegate (one request in all, the server's
\* delegates as they were) and returns (True, "Already Reviewer").
C2_NoWriteWhenReviewer ==
    \A c \in Callers :
        (Listed(c) /\ Reported(c, "Reviewer"))
            => /\ pc[c] = "returned"
               /\ adds[c] = 0 /\ updates[c] = 0 /\ posts[c] = 1
               /\ server = start[c]
               /\ ret[c] = Ret("return", TRUE, "Already Reviewer")

\* C2's case: a call has returned on a delegate stored in another case with
\* level Reviewer.
C2_Witness ==
    /\ pc[1] = "returned" /\ Reported(1, "Reviewer")
    /\ HoldsReviewer(server, query[1])
    /\ \E i \in 1..Len(server) : server[i].addr # query[1] /\ SameMailbox(server[i].addr, query[1])

\* C3: a call whose read reports no entry for the delegate ends having sent
\* exactly one AddDelegate (two requests in all), no UpdateDelegate, and
\* returns or raises exactly what the add does, a business failure included.
C3_AddWhenAbsent ==
    \A c \in Callers :
        (Listed(c) /\ ~HasEntry(c))
            => /\ updates[c] = 0
               /\ pc[c] = "writing" => adds[c] = 0 /\ posts[c] = 1
               /\ Done(c) => /\ adds[c] = 1 /\ posts[c] = 2
                             /\ ret[c] = add_delegate_inbox_reviewer(wresp[c])
                             /\ wresp[c].doc.respClass = "Error"
                                    => ret[c] = Ret("return", FALSE, wresp[c].doc.code)

\* C3's case: the add was rejected by the server and the call returned that.
C3_Witness ==
    /\ pc[1] = "returned" /\ Listed(1) /\ ~HasEntry(1)
    /\ adds[1] = 1
    /\ ret[1] = Ret("return", FALSE, "ErrorAccessDenied")

\* C4: with every request answered by the server, two calls in a row for the
\* same delegate both return success and send at most one write in total.
C4_TwoCallsOneWrite ==
    (~faulty /\ calls[1] = 2 /\ Done(1)) => (oks[1] = 2 /\ mutations <= 1)

\* C5: with every request answered by the server, a caller that calls again
\* until success ends with a success, the server holding the delegate with
\* level Reviewer from then on.
C5_RetryConverges ==
    <>[](pc[1] = "returned" /\ ret[1].ok /\ HoldsReviewer(server, query[1]))

\* C6: a delegate stored under an address that equals the queried one after
\* lower-casing, though not before, is treated as present (the call never
\* takes the add branch); with no stored address equal to the queried one
\* after lower-casing the delegate is treated as absent (the add branch).
C6_CaseInsensitiveMatch ==
    \A c \in Callers :
        (Listed(c) /\ rresp[c].status = 200) =>
            LET stored == rresp[c].doc.users
                same == {i \in 1..Len(stored) : Lower(stored[i].addr) = Lower(query[c])}
            IN  /\ (\E i \in same : stored[i].addr # query[c])
                    => adds[c] = 0 /\ EnsureBranch(found_level[c]) # "add"
                /\ same = {}
                    => EnsureBranch(found_level[c]) = "add" /\ (Done(c) => adds[c] = 1)

\* C7: a response whose status is not 2xx makes _post_ews raise: the 401 error
\* carrying the WWW-Authenticate value for 401, the transport (HTTP) error for
\* any other status; the body is never returned for parsing.
C7_Non2xxRaises ==
    (xml.kind # "none" /\ http # NoResponse /\ ~(http.status >= 200 /\ http.status < 300))
        => /\ xml.kind = "raise"
           /\ http.status = 401 => xml.err = "ValueError:401" /\ xml.detail = http.wwwAuth
           /\ http.status # 401 => xml.err = "HTTPError"

NonEmptyAddr(du) == du.hasAddr /\ du.addr # <<>>

NonBlankAddr(du) == du.hasAddr /\ \E i \in 1..Len(du.addr) : du.addr[i] # " "

\* The pairs expected of the entries kept by Keep: in document order, the
\* address with its capitals lowered and the level text, None without one.
ExpectedPairs(dus, Keep(_)) ==
    LET kept == SelectSeq(dus, Keep)
    IN  [i \in 1..Len(kept) |->
            <<[j \in 1..Len(kept[i].addr) |->
                  IF kept[i].addr[j] = "J" THEN "j" ELSE kept[i].addr[j]],
              IF kept[i].hasLevel THEN kept[i].level ELSE PyNone>>]

\* C8 as stated: from one request, one pair per entry whose address is present
\* and not empty, in document order; the others yield nothing.
C8_OnePairPerNonEmptyAddress ==
    pairs.kind = "list"
        => posts[1] = 1 /\ pairs.items = ExpectedPairs(http.doc.users, NonEmptyAddr)

\* C8 as amended: from one request, one pair per entry whose address is
\* present and not blank (not empty once surrounding whitespace is stripped),
\* in document order; entries with a missing, empty or blank address yield
\* nothing.
C8_OnePairPerNonBlankAddress ==
    pairs.kind = "list"
        => posts[1] = 1 /\ pairs.items = ExpectedPairs(http.doc.users, NonBlankAddr)

\* C8's case: two entries, (J, Reviewer) and (j, no level element), listed as
\* (j, Reviewer) and (j, None).
C8_Witness ==
    /\ pairs.kind = "list"
    /\ http.doc.users = <<DelegateUser(TRUE, <<"J">>, TRUE, "Reviewer"),
                          DelegateUser(TRUE, <<"j">>, FALSE, "")>>
    /\ pairs.items = << << <<"j">>, "Reviewer" >>, << <<"j">>, PyNone >> >>

\* The response to c's read is one the read fails on: no response at all, a
\* 401, a 4xx/5xx, an HTML page, or text that is not XML.
ReadFaulted(c) ==
    /\ pc[c] # "idle"
    /\ \/ rresp[c] = NoResponse
       \/ rresp[c].status = 401
       \/ rresp[c].status >= 400
       \/ rresp[c].head \in {"<!DOCTYPE HTML", "<html"}
       \/ ~rresp[c].doc.wellFormed

\* The error each failing response stands for.
FaultOf(resp) ==
    IF resp = NoResponse THEN "RequestException"
    ELSE IF resp.status = 401 THEN "ValueError:401"
    ELSE IF resp.status >= 400 THEN "HTTPError"
    ELSE IF resp.head \in {"<!DOCTYPE HTML", "<html"} THEN "ValueError:HTML"
    ELSE "ParseError"

\* C9: a call whose read fails raises the read's error, having made that one
\* transport call only: no AddDelegate, no UpdateDelegate, the server's
\* delegates as they were.
C9_ReadFaultPropagates ==
    \A c \in Callers :
        ReadFaulted(c)
            => /\ pc[c] = "raised"
               /\ ret[c] = Ret("raise", FALSE, FaultOf(rresp[c]))
               /\ adds[c] = 0 /\ updates[c] = 0 /\ posts[c] = 1
               /\ server = start[c]

\* C9's case: the read of a second call timed out after a first call succeeded.
C9_Witness ==
    /\ calls[1] = 2 /\ oks[1] = 1
    /\ rresp[1] = NoResponse /\ pc[1] = "raised"

\* C10: two racing calls for a delegate that was absent or held a named level:
\* once both have returned, the server holds the delegate with level Reviewer
\* and at least one call returned success.
C10_RaceEndsReviewer ==
    (~HoldsNoLevel(server0, query[1]) /\ pc[1] = "returned" /\ pc[2] = "returned")
        => HoldsReviewer(server, query[1]) /\ (ret[1].ok \/ ret[2].ok)

\* C10's case: both calls sent a write and one of them returned a failure.
C10_Witness ==
    /\ pc[1] = "returned" /\ pc[2] = "returned"
    /\ ~Holds(server0, query[1])
    /\ mutations = 2
    /\ ~ret[1].ok \/ ~ret[2].ok

====
